---------------------------- MODULE Spec2Model ----------------------------
(***************************************************************************)
(* Fuzzy-frame layer of esguincestorceduras-api: the Gaussian membership   *)
(* function and the /fuzzy endpoint (app.py), the seed script, run_many,   *)
(* the slot fuzzification, entropy and risk rule queries                   *)
(* (logicaDifusa.py), the categorical referral rule, /query_clinico and    *)
(* /query_monitoreo (esguincestorceduras.py) and the /query endpoint       *)
(* (monitoreo_modulo2.py), run against one graph.                          *)
(*                                                                         *)
(* Numbers.  A crisp value, centre or spread is a decimal float            *)
(* [m, e] = m * 10^e with an exact mantissa and the exponent range of an   *)
(* IEEE double.  A degree (membership, entropy, threshold) is an integer   *)
(* count of millionths.  A graph property or a float result is a record    *)
(* [k, v] whose kind k is "num", "null", "nan", "inf" or "ninf".           *)
(***************************************************************************)
EXTENDS Integers, Sequences, FiniteSets, TLC

VARIABLES
    sd,        \* (:Slot:Dolor {slot_name:'dolor_actual'}) node
    sm,        \* (:Slot:Mejora {slot_name:'mejora_observada'}) node
    sintomas,  \* (p:Paciente)-[:PRESENTA_SINTOMA]->(s:Sintoma) paths
    alertas,   \* the (:Alerta) nodes, in creation order
    atencion,  \* the (p)-[:REQUIERE_ATENCION]->(a) relationships, in creation order
    clock,     \* what datetime() returns
    rows,      \* the rows the last query returned
    op,        \* the operation that ran last
    indic,     \* (:Paciente)-..->(:Indicador) values fetch_indicator_value reads
    req,       \* the FuzzyQuery a /fuzzy request carries
    resp,      \* the /fuzzy response
    lookups,   \* how many times the /fuzzy request queried the graph
    nreq,      \* how many /fuzzy requests were served
    pc,        \* where each run of the recomputation script stands
    caido,     \* the external collaborators that fail when called
    http,      \* what the last endpoint call did: its calls out and its response
    grafo,     \* the nodes and relationships the seed script writes
    rm         \* where run_many stands: lines read, statements split, statements run

vars == <<sd, sm, sintomas, alertas, atencion, clock, rows, op, indic, req, resp, lookups,
          nreq, pc, caido, http, grafo, rm>>

----------------------------------------------------------------------------
(* Integer helpers *)

Abs(n) == IF n < 0 THEN -n ELSE n

RECURSIVE Pow10(_)
Pow10(n) == IF n <= 0 THEN 1 ELSE 10 * Pow10(n - 1)

RECURSIVE NumDigits(_)
NumDigits(n) == IF n < 10 THEN 1 ELSE 1 + NumDigits(n \div 10)

----------------------------------------------------------------------------
(* Degrees: fixed point, ONE = 1.0.  Products and quotients are split in   *)
(* thousands so that every intermediate stays inside a machine integer.    *)

ONE == 1000000

\* a * b, rounded to the nearest millionth (a, b >= 0)
MulD(a, b) ==
    LET a1 == a \div 1000   a0 == a % 1000
        b1 == b \div 1000   b0 == b % 1000
        mid == a1 * b0 + a0 * b1
        low == a0 * b0
    IN  a1 * b1 + (mid + (low + 500000) \div 1000) \div 1000

\* a / b, truncated to a millionth (0 <= a, 0 < b, a/b < 2000)
DivD(a, b) ==
    LET q2 == a \div b                   r2 == a % b
        q1 == (r2 * 1000) \div b         r1 == (r2 * 1000) % b
        q0 == (r1 * 1000) \div b
    IN  q2 * ONE + q1 * 1000 + q0

\* exp(-r) for 0 <= r <= 1: the alternating Taylor series, term i = r^i / i!
RECURSIVE ExpSeries(_, _, _, _)
ExpSeries(r, i, term, acc) ==
    IF term = 0 \/ i > 14 THEN acc
    ELSE LET t == (MulD(term, r) + i \div 2) \div i
         IN  ExpSeries(r, i + 1, t, IF i % 2 = 1 THEN acc - t ELSE acc + t)

EINV == ExpSeries(ONE, 1, ONE, ONE)

RECURSIVE ExpScale(_, _)
ExpScale(v, k) == IF k = 0 \/ v = 0 THEN v ELSE ExpScale(MulD(v, EINV), k - 1)

\* exp(-q) for a degree q >= 0; below half a millionth the result is 0
ExpNeg(q) == ExpScale(ExpSeries(q % ONE, 1, ONE, ONE), q \div ONE)

\* z + z^3/3 + z^5/5 + ... (atanh z) for 0 <= z <= 1/3
RECURSIVE AtanhSeries(_, _, _, _)
AtanhSeries(z2, j, pw, acc) ==
    IF pw = 0 \/ j > 25 THEN acc
    ELSE LET p == MulD(pw, z2)
         IN  AtanhSeries(z2, j + 2, p, acc + (p + j \div 2) \div j)

\* -ln(y) for 1/2 <= y <= 1:  ln y = -2 atanh((1 - y) / (1 + y))
NegLnUnit(y) ==
    LET z == DivD(ONE - y, ONE + y)
    IN  2 * AtanhSeries(MulD(z, z), 3, z, z)

LN2 == NegLnUnit(ONE \div 2)

\* natural logarithm of a degree m > 0, by halving or doubling m into [1/2, 1]
RECURSIVE Ln(_)
Ln(m) ==
    IF m < ONE \div 2 THEN Ln(2 * m) - LN2
    ELSE IF m > ONE THEN Ln((m + 1) \div 2) + LN2
    ELSE -NegLnUnit(m)

----------------------------------------------------------------------------
(* Property values.  Null is an absent property (Cypher NULL, Python None). *)

Null == [k |-> "null", v |-> 0]
NaN  == [k |-> "nan", v |-> 0]
Num(n) == [k |-> "num", v |-> n]

\* coalesce(p, d) of Cypher: the first argument that is not NULL
coalesce(p, d) == IF p.k = "null" THEN d ELSE p

----------------------------------------------------------------------------
(* Decimal floats [m, e] = m * 10^e: crisp values, centres and spreads.    *)
(* The mantissa is exact and carries no trailing zero; the exponent range  *)
(* is the double's: a magnitude of 10^309 or more overflows, a non-zero    *)
(* magnitude under 10^-324 underflows to zero.                             *)

MAX_10_EXP == 308
MIN_10_EXP == -324
\* an operand this many orders of magnitude below the other is absorbed by it
ABSORB == 5

RECURSIVE Norm(_, _)
Norm(m, e) ==
    IF m = 0 THEN [k |-> "num", m |-> 0, e |-> 0]
    ELSE IF m % 10 = 0 THEN Norm(m \div 10, e + 1)
    ELSE [k |-> "num", m |-> m, e |-> e]

Dec(m, e) == Norm(m, e)
DNull == [k |-> "null", m |-> 0, e |-> 0]
DInf  == [k |-> "inf", m |-> 0, e |-> 0]
DZero == Norm(0, 0)

\* floor(log10 |d|) of a non-zero float
Mag(d) == d.e + NumDigits(Abs(d.m)) - 1

\* the first eight digits of the largest double, 1.7976931348623157e308
DBL_MAX_8 == 17976931

\* the first eight digits of |d|, a mantissa shorter than that padded with zeros
Lead8(d) ==
    LET n == NumDigits(Abs(d.m))
    IN  IF n <= 8 THEN Abs(d.m) * Pow10(8 - n) ELSE Abs(d.m) \div Pow10(n - 8)

\* the float a result rounds to: overflow to infinity, underflow to zero
Ranged(d) ==
    IF d.m = 0 THEN DZero
    ELSE IF Mag(d) > MAX_10_EXP THEN DInf
    ELSE IF Mag(d) = MAX_10_EXP /\ Lead8(d) > DBL_MAX_8 THEN DInf
    ELSE IF Mag(d) < MIN_10_EXP THEN DZero
    ELSE d

\* x - y of two finite floats
DSub(x, y) ==
    IF y.m = 0 THEN x
    ELSE IF x.m = 0 THEN Norm(-y.m, y.e)
    ELSE IF Mag(x) - Mag(y) > ABSORB THEN x
    ELSE IF Mag(y) - Mag(x) > ABSORB THEN Norm(-y.m, y.e)
    ELSE LET e == IF x.e < y.e THEN x.e ELSE y.e
         IN  Ranged(Norm(x.m * Pow10(x.e - e) - y.m * Pow10(y.e - e), e))

\* d * d of a finite float, before the range is applied
DSquare(d) == Norm(d.m * d.m, 2 * d.e)

\* 2 * d of a finite or infinite float
DTwice(d) == IF d.k = "inf" THEN DInf ELSE Ranged(Norm(2 * d.m, d.e))

\* floor(n * 10^s / d) and the remainder, digit by digit
RECURSIVE LongDiv(_, _, _)
LongDiv(n, d, s) ==
    IF s = 0 THEN [q |-> n \div d, r |-> n % d]
    ELSE LET p == LongDiv(n, d, s - 1)
         IN  [q |-> p.q * 10 + (p.r * 10) \div d, r |-> (p.r * 10) % d]

\* from this quotient on, exp(-q) is below half a millionth
QCAP == 20 * ONE

\* n / d of two finite floats, n >= 0 < d, as a degree truncated to a
\* millionth and capped at QCAP
DQuot(n, d) ==
    IF n.m = 0 THEN 0
    ELSE IF Mag(n) - Mag(d) >= 3 THEN QCAP
    ELSE IF Mag(n) - Mag(d) <= -8 THEN 0
    ELSE LET s == n.e - d.e + 6
             q == IF s >= 0 THEN LongDiv(n.m, d.m, s).q
                  ELSE IF s < -9 THEN 0
                  ELSE (n.m \div d.m) \div Pow10(-s)
         IN  IF q > QCAP THEN QCAP ELSE q

----------------------------------------------------------------------------
(* app.py: the membership function *)

Returned(v) == [exc |-> "none", k |-> "num", v |-> v]
ReturnedNaN == [exc |-> "none", k |-> "nan", v |-> 0]
Raised(e)   == [exc |-> e, k |-> "null", v |-> 0]

\* x - mu of floats: an infinite x stays infinite, an overflow gives an infinity
PySub(x, mu) == IF x.k = "inf" THEN DInf ELSE DSub(x, mu)

\* float ** 2 (float_pow): OverflowError on overflow of a finite base, 0.0 on
\* underflow; inf ** 2 is inf
PyPow2(d) ==
    IF d.k = "inf" THEN [exc |-> "none", val |-> DInf]
    ELSE LET r == Ranged(DSquare(d))
         IN  IF r.k = "inf" THEN [exc |-> "OverflowError", val |-> DZero]
             ELSE [exc |-> "none", val |-> r]

\* the exponent taken on one side of the centre only: 0 for x < mu
gaussian_exp_UnLado(x, mu, sigma) ==
    LET d   == PySub(x, mu)
        sq  == IF d.k = "num" /\ d.m < 0 THEN [exc |-> "none", val |-> DZero] ELSE PyPow2(d)
        s2  == PyPow2(sigma)
        den == DTwice(s2.val)
    IN  IF sq.exc # "none" THEN Raised(sq.exc)
        ELSE IF s2.exc # "none" THEN Raised(s2.exc)
        ELSE IF den.k = "inf" THEN (IF sq.val.k = "inf" THEN ReturnedNaN ELSE Returned(ONE))
        ELSE IF den.m = 0 THEN Raised("ZeroDivisionError")
        ELSE IF sq.val.k = "inf" THEN Returned(0)
        ELSE Returned(ExpNeg(DQuot(sq.val, den)))

\* math.exp(-((x - mu) ** 2) / (2 * (sigma ** 2))), operand by operand:
\* the powers raise OverflowError, the division ZeroDivisionError
gaussian_exp(x, mu, sigma) ==
    LET sq  == PyPow2(PySub(x, mu))
        s2  == PyPow2(sigma)
        den == DTwice(s2.val)
    IN  IF sq.exc # "none" THEN Raised(sq.exc)
        ELSE IF s2.exc # "none" THEN Raised(s2.exc)
        ELSE IF den.k = "inf" THEN (IF sq.val.k = "inf" THEN ReturnedNaN ELSE Returned(ONE))
        ELSE IF den.m = 0 THEN Raised("ZeroDivisionError")
        ELSE IF sq.val.k = "inf" THEN Returned(0)
        ELSE Returned(ExpNeg(DQuot(sq.val, den)))

\* the sigma test written as sigma < 0
gaussian_membership_SigmaNegativa(x, mu, sigma) ==
    IF sigma.m < 0 THEN Returned(0) ELSE gaussian_exp(x, mu, sigma)

gaussian_membership(x, mu, sigma) ==
    IF sigma.m <= 0 THEN Returned(0) ELSE gaussian_exp(x, mu, sigma)

----------------------------------------------------------------------------
(* logicaDifusa.py: the Cypher expressions of the fuzzification and of the *)
(* entropy.  Cypher float arithmetic raises nothing: x/0.0 is an infinity  *)
(* or NaN.                                                                 *)

\* 1e-6, the spread a category without one is given
B_DEFAULT == Dec(1, -6)

\* exp( - ((x - a) * (x - a)) / (2.0 * (b * b)) )
MuGauss(x, a, b) ==
    IF a.k = "null" \/ x.k = "null" THEN Null
    ELSE LET d   == DSub(x, a)
             num == IF d.k = "inf" THEN DInf ELSE Ranged(DSquare(d))
             den == DTwice(Ranged(DSquare(b)))
         IN  IF num.k = "inf" /\ den.k = "inf" THEN NaN
             ELSE IF num.k = "inf" THEN Num(0)
             ELSE IF den.k = "inf" THEN Num(ONE)
             ELSE IF den.m = 0 /\ num.m = 0 THEN NaN
             ELSE IF den.m = 0 THEN Num(0)
             ELSE Num(ExpNeg(DQuot(num, den)))

\* round(v, 4): to the nearest ten-thousandth, a half rounding up
Round4(v) == ((v + 50) \div 100) * 100

\* the term without its guard: 0 * log(0) is 0 * -Infinity, NaN
EntropyTerm_SinGuarda(u) ==
    IF u.k # "num" THEN Num(0)
    ELSE IF u.v = 0 THEN NaN
    ELSE Num(MulD(u.v, -Ln(u.v)))

\* CASE WHEN m > 0 THEN -(m * log(m)) ELSE 0.0 END, for m <= 1
\* (NULL was coalesced to 0.0 before; NaN > 0 is false)
EntropyTerm(u) ==
    IF u.k = "num" /\ u.v > 0 THEN Num(MulD(u.v, -Ln(u.v))) ELSE Num(0)

\* h + t of the reduce: NaN is contagious
AddTerm(h, t) == IF h.k = "nan" \/ t.k = "nan" THEN NaN ELSE Num(h.v + t.v)

\* the sum without its division by log(3.0)
Hnorm_SinNormalizar(U) ==
    LET h == AddTerm(AddTerm(AddTerm(Num(0), EntropyTerm(U[1])),
                             EntropyTerm(U[2])), EntropyTerm(U[3]))
    IN  h

\* reduce(h = 0.0, m IN U | h + ...) / log(3.0)
Hnorm(U) ==
    LET h == AddTerm(AddTerm(AddTerm(Num(0), EntropyTerm(U[1])),
                             EntropyTerm(U[2])), EntropyTerm(U[3]))
    IN  IF h.k = "nan" THEN NaN ELSE Num(DivD(h.v, Ln(3 * ONE)))

----------------------------------------------------------------------------
(* The graph *)

\* how far datetime() advances
MaxClock == 2
\* how many /fuzzy requests a behaviour serves
MaxRequests == 1

\* (:Slot:Dolor {slot_name:'dolor_actual'}) as the seed leaves it
SeedDolor ==
    [exists |-> TRUE, valor_crisp |-> Dec(75, -1), funcion_pertenencia |-> "null",
     a_leve |-> DNull, b_leve |-> DNull, a_moderado |-> DNull, b_moderado |-> DNull,
     a_severo |-> DNull, b_severo |-> DNull,
     mu_leve |-> Null, mu_moderado |-> Null, mu_severo |-> Null,
     fuzzy_last_updated |-> Null, entropia |-> Null, entropia_updated_at |-> Null]

\* (:Slot:Mejora {slot_name:'mejora_observada'}) as the seed leaves it
SeedMejora ==
    [exists |-> TRUE, valor_crisp |-> Dec(4, 1),
     mu_baja |-> Num(700000), mu_media |-> Num(300000), mu_alta |-> Num(0)]

\* toLower() on the symptom names of the graph
toLower(nombre) ==
    CASE nombre = "Dolor" -> "dolor"
      [] nombre = "DOLOR" -> "dolor"
      [] nombre = "Hematoma" -> "hematoma"
      [] OTHER -> nombre

\* an (:Alerta) node; a property the node does not have is Null or "null"
Alerta(codigo, ts, created_at, severidad, descripcion, resuelta) ==
    [codigo |-> codigo, ts |-> ts, created_at |-> created_at,
     severidad |-> severidad, descripcion |-> descripcion, resuelta |-> resuelta]

\* the nodes a MERGE (:Alerta {codigo: c}) matches
AlertasCon(as, c) == {i \in 1..Len(as) : as[i].codigo = c}

\* what an endpoint call did: the calls it made to the language model and to
\* the graph store, in order, and what the caller got: a payload with the
\* keys campos (kind "ok" or "error"), or an exception that left the handler
HttpResp(endpoint, kind, error, cypher, campos, llamadas) ==
    [endpoint |-> endpoint, kind |-> kind, error |-> error, cypher |-> cypher,
     campos |-> campos, llamadas |-> llamadas,
     pregunta |-> <<>>]

\* one call to a collaborator: the text sent, and the error it raised ("" if none)
Llamada(servicio, texto, falla) ==
    [servicio |-> servicio, texto |-> texto, falla |-> falla, respuesta |-> <<>>]

\* no endpoint was called yet
NoCall == HttpResp("none", "none", "", <<>>, {}, <<>>)

\* the graph before the seed script ran, and run_many before it is called
GrafoVacio == [nodos |-> <<>>, rels |-> <<>>]
SinCorrida == [fase |-> "idle", script |-> <<>>, i |-> 0, current |-> <<>>,
               statements |-> <<>>, k |-> 0, corridas |-> 0]

----------------------------------------------------------------------------
(* logicaDifusa.py: rule_alerta_riesgo_alto *)

umbral_dolor == 700000
umbral_mejora == 600000

\* the rule with strict thresholds
RiesgoAlto_Estricto(d, m) ==
    /\ d.exists /\ m.exists
    /\ coalesce(d.mu_severo, Num(0)).k = "num"
    /\ coalesce(d.mu_severo, Num(0)).v > umbral_dolor
    /\ coalesce(m.mu_baja, Num(0)).k = "num"
    /\ coalesce(m.mu_baja, Num(0)).v > umbral_mejora

\* the rule without its WHERE on the improvement slot
RiesgoAlto_SoloDolor(d, m) ==
    /\ d.exists /\ m.exists
    /\ coalesce(d.mu_severo, Num(0)).k = "num"
    /\ coalesce(d.mu_severo, Num(0)).v >= umbral_dolor

\* MATCH (sd), (sm) WHERE coalesce(sd.mu_severo,0.0) >= umbral_dolor
\*                    AND coalesce(sm.mu_baja,0.0)   >= umbral_mejora
\* (a comparison with NaN is false)
RiesgoAlto(d, m) ==
    /\ d.exists /\ m.exists
    /\ coalesce(d.mu_severo, Num(0)).k = "num"
    /\ coalesce(d.mu_severo, Num(0)).v >= umbral_dolor
    /\ coalesce(m.mu_baja, Num(0)).k = "num"
    /\ coalesce(m.mu_baja, Num(0)).v >= umbral_mejora

\* SET al.ts = datetime(), al.severidad = 'alta', al.descripcion = ..., al.resuelta = false
SetRiesgoAlto(al, now) ==
    [al EXCEPT !.ts = Num(now), !.severidad = "alta",
               !.descripcion = "Dolor severo y baja mejoria en esguince/torcedura",
               !.resuelta = FALSE]

\* MERGE (al:Alerta {codigo:'RIESGO_ALTO_ESGUINCE'}) SET ..., for the one matched row
MergeRiesgoAlto(as, now) ==
    LET hit == AlertasCon(as, "RIESGO_ALTO_ESGUINCE")
    IN  IF hit = {}
        THEN Append(as, SetRiesgoAlto(
                 Alerta("RIESGO_ALTO_ESGUINCE", Null, Null, "null", "null", FALSE), now))
        ELSE [i \in 1..Len(as) |-> IF i \in hit THEN SetRiesgoAlto(as[i], now) ELSE as[i]]

\* RETURN al.codigo, al.severidad, al.descripcion, al.ts
RowsRiesgoAlto(as) ==
    LET hit == AlertasCon(as, "RIESGO_ALTO_ESGUINCE")
        RECURSIVE Out(_)
        Out(S) == IF S = {} THEN <<>>
                  ELSE LET i == CHOOSE j \in S : \A l \in S : j <= l
                       IN  <<[codigo |-> as[i].codigo, severidad |-> as[i].severidad,
                              descripcion |-> as[i].descripcion, ts |-> as[i].ts]>>
                           \o Out(S \ {i})
    IN  Out(hit)

rule_alerta_riesgo_alto ==
    /\ IF RiesgoAlto(sd, sm)
       THEN /\ alertas' = MergeRiesgoAlto(alertas, clock)
            /\ rows' = RowsRiesgoAlto(alertas')
       ELSE /\ alertas' = alertas
            /\ rows' = <<>>
    /\ op' = "rule_alerta_riesgo_alto"
    /\ UNCHANGED <<sd, sm, sintomas, atencion, clock, indic, grafo, rm, req, resp, lookups, nreq, pc, caido, http>>

----------------------------------------------------------------------------
(* esguincestorceduras.py: CYpher_REGLA_HEMATOMA_SEVERO, run by the        *)
(* /regla_hematoma endpoint                                                *)

\* MATCH (p:Paciente)-[:PRESENTA_SINTOMA]->(s:Sintoma)
\* WHERE s.intensidad = 'Intenso' AND toLower(s.nombre) = 'dolor'
DolorIntenso(path) ==
    /\ path.intensidad = "Intenso"
    /\ toLower(path.nombre) = "dolor"

\* the matched paths, in the order of their symptom nodes
RECURSIVE EnOrden(_)
EnOrden(S) ==
    IF S = {} THEN <<>>
    ELSE LET x == CHOOSE y \in S : \A z \in S : y.s <= z.s
         IN  <<x>> \o EnOrden(S \ {x})

\* MERGE (a:Alerta {codigo: ...}) ON CREATE SET a.descripcion, a.created_at, a.resuelta
MergeDerivacion(as, now) ==
    IF AlertasCon(as, "DERIVACION_INMEDIATA_DOLOR") # {} THEN as
    ELSE Append(as, Alerta("DERIVACION_INMEDIATA_DOLOR", Null, Num(now), "null",
                    "Dolor intenso: se recomienda derivacion medica inmediata", FALSE))

\* the relationship written with CREATE in place of MERGE: one more per row
RECURSIVE MergeAtencion_Create(_, _, _)
MergeAtencion_Create(rel, p, A) ==
    IF A = {} THEN rel
    ELSE LET a == CHOOSE i \in A : \A j \in A : i <= j
         IN  MergeAtencion_Create(Append(rel, [p |-> p, a |-> a]), p, A \ {a})

\* MERGE (p)-[:REQUIERE_ATENCION]->(a), for every node a the row is bound to
RECURSIVE MergeAtencion(_, _, _)
MergeAtencion(rel, p, A) ==
    IF A = {} THEN rel
    ELSE LET a == CHOOSE i \in A : \A j \in A : i <= j
             r == IF \E n \in 1..Len(rel) : rel[n] = [p |-> p, a |-> a]
                  THEN rel ELSE Append(rel, [p |-> p, a |-> a])
         IN  MergeAtencion(r, p, A \ {a})

\* RETURN p.id AS paciente_id, a.codigo AS codigo_alerta, a.descripcion AS motivo
RECURSIVE RowsDerivacion(_, _, _)
RowsDerivacion(as, p, A) ==
    IF A = {} THEN <<>>
    ELSE LET a == CHOOSE i \in A : \A j \in A : i <= j
         IN  <<[paciente_id |-> p, codigo_alerta |-> as[a].codigo,
                motivo |-> as[a].descripcion]>> \o RowsDerivacion(as, p, A \ {a})

\* the query, row by row: the graph and the rows after the matched paths ps
RECURSIVE ReglaDolor(_, _, _)
ReglaDolor(ps, g, now) ==
    IF ps = <<>> THEN g
    ELSE LET as  == MergeDerivacion(g.alertas, now)
             A   == AlertasCon(as, "DERIVACION_INMEDIATA_DOLOR")
             rel == MergeAtencion(g.atencion, Head(ps).p, A)
         IN  ReglaDolor(Tail(ps),
                        [alertas |-> as, atencion |-> rel,
                         rows |-> g.rows \o RowsDerivacion(as, Head(ps).p, A)], now)

CYpher_REGLA_HEMATOMA_SEVERO(paths, as, rel, now) ==
    ReglaDolor(EnOrden({x \in paths : DolorIntenso(x)}),
               [alertas |-> as, atencion |-> rel, rows |-> <<>>], now)

\* resultado = graph.query(CYpher_REGLA_HEMATOMA_SEVERO); return resultado
\* (the route is this function: nothing catches what graph.query raises)
ejecutar_regla_hematoma_severo ==
    LET resultado == CYpher_REGLA_HEMATOMA_SEVERO(sintomas, alertas, atencion, clock)
        texto     == <<<<"CYpher_REGLA_HEMATOMA_SEVERO">>>>
    IN  /\ IF "grafo" \in caido
           THEN /\ UNCHANGED <<alertas, atencion>>
                /\ rows' = <<>>
                /\ http' = HttpResp("/regla_hematoma", "exception", "ServiceUnavailable",
                                    <<>>, {},
                                    <<Llamada("grafo", texto, "ServiceUnavailable")>>)
           ELSE /\ alertas' = resultado.alertas
                /\ atencion' = resultado.atencion
                /\ rows' = resultado.rows
                /\ http' = HttpResp("/regla_hematoma", "ok", "", <<>>, {"rows"},
                                    <<Llamada("grafo", texto, "")>>)
        /\ op' = "regla_hematoma"
        /\ UNCHANGED <<sd, sm, sintomas, clock, indic, grafo, rm, req, resp, lookups, nreq, pc, caido>>

----------------------------------------------------------------------------
(* What the surroundings do to the graph *)

\* an operator resolves an alert by hand
Resolver(i) ==
    /\ i \in 1..Len(alertas)
    /\ ~alertas[i].resuelta
    /\ alertas' = [alertas EXCEPT ![i].resuelta = TRUE]
    /\ op' = "resolver"
    /\ UNCHANGED <<sd, sm, sintomas, atencion, clock, rows, indic, grafo, rm, req, resp, lookups, nreq, pc, caido, http>>

\* time passes
Tick ==
    /\ clock < MaxClock
    /\ clock' = clock + 1
    /\ op' = "tick"
    /\ UNCHANGED <<sd, sm, sintomas, alertas, atencion, rows, indic, grafo, rm, req, resp, lookups, nreq, pc, caido, http>>

----------------------------------------------------------------------------
(* The rules on a graph: specification Spec *)

\* stored degrees around the two thresholds
MuSeveroCases == {Null, Num(650000), Num(699999), Num(700000), Num(750000)}
MuBajaCases   == {Null, Num(599999), Num(600000), Num(620000), Num(700000)}

Path(p, s, nombre, intensidad) ==
    [p |-> p, s |-> s, nombre |-> nombre, intensidad |-> intensidad]

\* the patients' symptoms
SintomaCases ==
    { {},
      {Path(1, 1, "Dolor", "Intenso")},
      {Path(1, 1, "dolor", "Intenso"), Path(1, 2, "DOLOR", "Intenso"),
       Path(2, 3, "Hematoma", "Intenso")},
      {Path(1, 1, "Dolor", "severa"), Path(2, 2, "Dolor", "Intenso")},
      {Path(1, 1, "Dolor", "Leve"), Path(2, 2, "Hematoma", "severa")} }

SlotCases ==
    {<<[SeedDolor EXCEPT !.mu_severo = s], [SeedMejora EXCEPT !.mu_baja = b]>> :
        s \in MuSeveroCases, b \in MuBajaCases}
    \cup {<<[SeedDolor EXCEPT !.exists = FALSE], SeedMejora>>,
          <<[SeedDolor EXCEPT !.mu_severo = Num(750000)],
            [SeedMejora EXCEPT !.exists = FALSE]>>}

\* no /fuzzy request was made yet
NoRequest == [indicador_nombre |-> "null", valor |-> DNull, media |-> DZero,
              sigma |-> DZero, dni |-> Null, sintoma |-> [k |-> "null", v |-> ""]]
NoResponse == [kind |-> "none", exc |-> "none", indicador |-> "null", valor |-> DNull,
               gauss_media |-> DNull, gauss_sigma |-> DNull, pertenencia |-> 0]

\* the recomputation scripts: none is running
Procs == {1, 2}
Idle == [i \in Procs |-> "idle"]

Init ==
    /\ \E c \in SlotCases : sd = c[1] /\ sm = c[2]
    /\ sintomas \in SintomaCases
    /\ alertas = <<>>
    /\ atencion = <<>>
    /\ clock = 1
    /\ rows = <<>>
    /\ op = "init"
    /\ indic = {}
    /\ req = NoRequest
    /\ resp = NoResponse
    /\ lookups = 0
    /\ nreq = 0
    /\ pc = Idle
    /\ caido = {}
    /\ http = NoCall
    /\ grafo = GrafoVacio
    /\ rm = SinCorrida

Next ==
    \/ rule_alerta_riesgo_alto
    \/ ejecutar_regla_hematoma_severo
    \/ \E i \in 1..Len(alertas) : Resolver(i)
    \/ Tick

Spec == Init /\ [][Next]_vars

----------------------------------------------------------------------------
(* logicaDifusa.py: the slot queries *)

\* gaussian_params_dolor: MATCH (t:Slot:Dolor ...) SET t.funcion_pertenencia = 'gaussiana', ...
gaussian_params_dolor ==
    /\ sd' = IF sd.exists
             THEN [sd EXCEPT !.funcion_pertenencia = "gaussiana",
                             !.a_leve = Dec(2, 0),     !.b_leve = Dec(15, -1),
                             !.a_moderado = Dec(5, 0), !.b_moderado = Dec(15, -1),
                             !.a_severo = Dec(8, 0),   !.b_severo = Dec(12, -1)]
             ELSE sd
    /\ rows' = <<>>
    /\ op' = "gaussian_params_dolor"
    /\ UNCHANGED <<sm, sintomas, alertas, atencion, clock, indic, grafo, rm, req, resp, lookups, nreq, pc, caido, http>>

\* the match without its test of the crisp value
FuzzMatches_SinValor(s) ==
    s.exists /\ s.funcion_pertenencia = "gaussiana"

\* MATCH (s:Slot:Dolor ...) WHERE s.valor_crisp IS NOT NULL
\*                            AND s.funcion_pertenencia = 'gaussiana'
FuzzMatches(s) ==
    s.exists /\ s.valor_crisp.k # "null" /\ s.funcion_pertenencia = "gaussiana"

\* a SET that writes two of the three degrees
FuzzSet_Parcial(s, now) ==
    LET x == s.valor_crisp
    IN  [s EXCEPT !.mu_leve     = MuGauss(x, s.a_leve, coalesce(s.b_leve, B_DEFAULT)),
                  !.mu_moderado = MuGauss(x, s.a_moderado, coalesce(s.b_moderado, B_DEFAULT)),
                  !.fuzzy_last_updated = Num(now)]

\* SET s.mu_leve = ..., s.mu_moderado = ..., s.mu_severo = ..., s.fuzzy_last_updated = datetime()
FuzzSet(s, now) ==
    LET x == s.valor_crisp
    IN  [s EXCEPT !.mu_leve     = MuGauss(x, s.a_leve, coalesce(s.b_leve, B_DEFAULT)),
                  !.mu_moderado = MuGauss(x, s.a_moderado, coalesce(s.b_moderado, B_DEFAULT)),
                  !.mu_severo   = MuGauss(x, s.a_severo, coalesce(s.b_severo, B_DEFAULT)),
                  !.fuzzy_last_updated = Num(now)]

\* round(v, 3) of a degree property
Round3(u) == IF u.k = "num" THEN Num(((u.v + 500) \div 1000) * 1000) ELSE u

\* run(fuzz_gauss_dolor): the query on the graph, whoever runs it
run_fuzz_gauss_dolor ==
    /\ IF FuzzMatches(sd)
       THEN /\ sd' = FuzzSet(sd, clock)
            /\ rows' = <<[slot |-> "dolor_actual", valor |-> sd.valor_crisp,
                          mu_leve |-> Round3(sd'.mu_leve),
                          mu_moderado |-> Round3(sd'.mu_moderado),
                          mu_severo |-> Round3(sd'.mu_severo)]>>
       ELSE /\ sd' = sd
            /\ rows' = <<>>
    /\ op' = "fuzz_gauss_dolor"
    /\ UNCHANGED <<sm, sintomas, alertas, atencion, clock, indic, grafo, rm, req, resp, lookups, nreq, caido, http>>

fuzz_gauss_dolor == run_fuzz_gauss_dolor /\ UNCHANGED pc

\* round(Hnorm,4) of the entropy property
RoundEntropia(h) == IF h.k = "num" THEN Num(Round4(h.v)) ELSE h

\* WITH s, [u1,u2,u3] AS U ... SET s.entropia = round(Hnorm,4), s.entropia_updated_at = datetime()
EntropySet(s, now) ==
    LET U == <<coalesce(s.mu_leve, Num(0)), coalesce(s.mu_moderado, Num(0)),
               coalesce(s.mu_severo, Num(0))>>
    IN  [s EXCEPT !.entropia = RoundEntropia(Hnorm(U)),
                  !.entropia_updated_at = Num(now)]

\* run(entropy_dolor): the query on the graph, whoever runs it
run_entropy_dolor ==
    /\ IF sd.exists
       THEN /\ sd' = EntropySet(sd, clock)
            /\ rows' = <<[slot |-> "dolor_actual", dolor_actual |-> sd.valor_crisp,
                          entropia |-> sd'.entropia]>>
       ELSE /\ sd' = sd
            /\ rows' = <<>>
    /\ op' = "entropy_dolor"
    /\ UNCHANGED <<sm, sintomas, alertas, atencion, clock, indic, grafo, rm, req, resp, lookups, nreq, caido, http>>

entropy_dolor == run_entropy_dolor /\ UNCHANGED pc

\* the data-entry step writes the crisp value of the slot
RegistrarValor(x) ==
    /\ sd.exists
    /\ sd.valor_crisp # x
    /\ sd' = [sd EXCEPT !.valor_crisp = x]
    /\ rows' = <<>>
    /\ op' = "registrar_valor"
    /\ UNCHANGED <<sm, sintomas, alertas, atencion, clock, indic, grafo, rm, req, resp, lookups, nreq, pc, caido, http>>

\* the category definitions of the slot are edited: centres and spreads
DefinirCategorias(c) ==
    /\ sd.exists
    /\ sd' = [sd EXCEPT !.funcion_pertenencia = "gaussiana",
                        !.a_leve = c[1][1], !.b_leve = c[1][2],
                        !.a_moderado = c[2][1], !.b_moderado = c[2][2],
                        !.a_severo = c[3][1], !.b_severo = c[3][2]]
    /\ sd' # sd
    /\ rows' = <<>>
    /\ op' = "definir_categorias"
    /\ UNCHANGED <<sm, sintomas, alertas, atencion, clock, indic, grafo, rm, req, resp, lookups, nreq, pc, caido, http>>

----------------------------------------------------------------------------
(* The slot dolor_actual: specification SpecSlot *)

\* crisp values the data entry writes
ValorCases == {DNull, Dec(5, 0), Dec(75, -1), Dec(8, 0)}

\* edited category definitions <<centre, spread>> for leve, moderado, severo
CategoriaCases ==
    { <<<<Dec(2, 0), Dec(15, -1)>>, <<Dec(5, 0), Dec(15, -1)>>, <<Dec(8, 0), Dec(-12, -1)>>>>,
      <<<<Dec(2, 0), Dec(15, -1)>>, <<Dec(5, 0), DZero>>,       <<Dec(8, 0), DZero>>>>,
      <<<<Dec(2, 0), DNull>>,       <<Dec(5, 0), DNull>>,       <<Dec(8, 0), DNull>>>> }

\* membership vectors an earlier fuzzification left on the slot
MuVectorCases ==
    { <<Null, Null, Null>>,
      <<Num(0), Num(0), Num(0)>>,
      <<Num(ONE), Num(0), Num(0)>>,
      <<Num(ONE), Num(ONE), Num(ONE)>>,
      <<Num(500000), Num(500000), Num(500000)>>,
      <<Num(367879), Num(367880), Num(367879)>>,
      <<Num(1), Num(999999), Num(250000)>> }

InitSlot ==
    /\ \E U \in MuVectorCases :
          sd = [SeedDolor EXCEPT !.mu_leve = U[1], !.mu_moderado = U[2], !.mu_severo = U[3]]
    /\ sm = SeedMejora
    /\ sintomas = {}
    /\ alertas = <<>>
    /\ atencion = <<>>
    /\ clock = 1
    /\ rows = <<>>
    /\ op = "init"
    /\ indic = {}
    /\ req = NoRequest
    /\ resp = NoResponse
    /\ lookups = 0
    /\ nreq = 0
    /\ pc = Idle
    /\ caido = {}
    /\ http = NoCall
    /\ grafo = GrafoVacio
    /\ rm = SinCorrida

NextSlot ==
    \/ gaussian_params_dolor
    \/ fuzz_gauss_dolor
    \/ entropy_dolor
    \/ \E x \in ValorCases : RegistrarValor(x)
    \/ \E c \in CategoriaCases : DefinirCategorias(c)
    \/ Tick

SpecSlot == InitSlot /\ [][NextSlot]_vars

----------------------------------------------------------------------------
(* Two requests recompute the slot at once: specification SpecConc.  Each  *)
(* runs the steps of the script, the fuzzification and then the entropy,   *)
(* on the crisp value its data entry wrote; a query is one transaction.    *)

\* the request's data entry writes the crisp value
main_valor(i, x) ==
    /\ pc[i] = "valor"
    /\ sd' = [sd EXCEPT !.valor_crisp = x]
    /\ rows' = <<>>
    /\ op' = "registrar_valor"
    /\ pc' = [pc EXCEPT ![i] = "fuzz"]
    /\ UNCHANGED <<sm, sintomas, alertas, atencion, clock, indic, grafo, rm, req, resp, lookups, nreq,
                   caido, http>>

\* res_fuzz = run(fuzz_gauss_dolor)
main_fuzz(i) ==
    /\ pc[i] = "fuzz"
    /\ run_fuzz_gauss_dolor
    /\ pc' = [pc EXCEPT ![i] = "entropy"]

\* res_ent = run(entropy_dolor)
main_entropy(i) ==
    /\ pc[i] = "entropy"
    /\ run_entropy_dolor
    /\ pc' = [pc EXCEPT ![i] = "done"]

\* the three degrees of the crisp value x under the categories of slot s
VectorDe(s, x) ==
    <<MuGauss(x, s.a_leve, coalesce(s.b_leve, B_DEFAULT)),
      MuGauss(x, s.a_moderado, coalesce(s.b_moderado, B_DEFAULT)),
      MuGauss(x, s.a_severo, coalesce(s.b_severo, B_DEFAULT))>>

\* the slot after gaussian_params_dolor
DolorConParametros ==
    [SeedDolor EXCEPT !.funcion_pertenencia = "gaussiana",
                      !.a_leve = Dec(2, 0),     !.b_leve = Dec(15, -1),
                      !.a_moderado = Dec(5, 0), !.b_moderado = Dec(15, -1),
                      !.a_severo = Dec(8, 0),   !.b_severo = Dec(12, -1)]

InitConc ==
    /\ \E U \in {<<Null, Null, Null>>, VectorDe(DolorConParametros, Dec(8, 0))},
          h \in {Null, Num(0)} :
          sd = [DolorConParametros EXCEPT !.mu_leve = U[1], !.mu_moderado = U[2],
                                          !.mu_severo = U[3], !.entropia = h]
    /\ sm = SeedMejora
    /\ sintomas = {}
    /\ alertas = <<>>
    /\ atencion = <<>>
    /\ clock = 1
    /\ rows = <<>>
    /\ op = "init"
    /\ indic = {}
    /\ req = NoRequest
    /\ resp = NoResponse
    /\ lookups = 0
    /\ nreq = 0
    /\ pc = [i \in Procs |-> "valor"]
    /\ caido = {}
    /\ http = NoCall
    /\ grafo = GrafoVacio
    /\ rm = SinCorrida

NextConc ==
    \/ \E i \in Procs, x \in ValorCases : main_valor(i, x)
    \/ \E i \in Procs : main_fuzz(i)
    \/ \E i \in Procs : main_entropy(i)
    \/ Tick

SpecConc == InitConc /\ [][NextConc]_vars

----------------------------------------------------------------------------
(* app.py: fetch_indicator_value and the /fuzzy endpoint *)

SNull == [k |-> "null", v |-> ""]
Str(t) == [k |-> "str", v |-> t]

\* the truth value Python gives an Optional[int] and an Optional[str]
TruthyInt(p) == p.k = "num" /\ p.v # 0
TruthyStr(p) == p.k = "str" /\ p.v # ""

\* MATCH (p:Paciente{dni:$dni})-[:PRESENTA_SINTOMA]->(s:Sintoma{nombre:$sint})
\*       -[:TIENE_INDICADOR]->(i:Indicador{nombre:$iname}) RETURN i.valor AS valor
IndicadorRows(g, dni, sintoma, indicador_nombre) ==
    {i \in g : i.dni = dni.v /\ i.sintoma = sintoma.v /\ i.nombre = indicador_nombre}

\* the values rows[0].get("valor") can be (LIMIT 1 of an unordered match), or None
fetch_indicator_value(g, dni, sintoma, indicador_nombre) ==
    LET found == IndicadorRows(g, dni, sintoma, indicador_nombre)
    IN  IF found = {} THEN {DNull} ELSE {i.valor : i \in found}

\* round(mu, 4) of Python: to the nearest ten-thousandth, a half to the even one
PyRound4(v) ==
    LET q == v \div 100
        r == v % 100
    IN  IF r > 50 \/ (r = 50 /\ q % 2 = 1) THEN (q + 1) * 100 ELSE q * 100

Response(kind, exc, indicador, valor, media, sigma, pertenencia) ==
    [kind |-> kind, exc |-> exc, indicador |-> indicador, valor |-> valor,
     gauss_media |-> media, gauss_sigma |-> sigma, pertenencia |-> pertenencia]

ErrorPayload == Response("error", "none", "null", DNull, DNull, DNull, 0)

\* the body of fuzzy(q) once x is resolved
FuzzyResult(q, x) ==
    IF x.k = "null" THEN ErrorPayload
    ELSE LET mu == gaussian_membership(x, q.media, q.sigma)
         IN  IF mu.exc # "none"
             THEN Response("exception", mu.exc, "null", DNull, DNull, DNull, 0)
             ELSE IF mu.k = "nan"   \* the response encoder refuses NaN
             THEN Response("exception", "ValueError", "null", DNull, DNull, DNull, 0)
             ELSE Response("ok", "none", q.indicador_nombre, x, q.media, q.sigma,
                           PyRound4(mu.v))

\* the test on x with Python's truth value of a float: 0.0 counts as absent
DebeBuscar_ValorFalsy(q) ==
    /\ q.valor.k = "null" \/ q.valor.m = 0
    /\ TruthyInt(q.dni)
    /\ TruthyStr(q.sintoma)

\* if x is None and q.dni and q.sintoma
DebeBuscar(q) ==
    /\ q.valor.k = "null"
    /\ TruthyInt(q.dni)
    /\ TruthyStr(q.sintoma)

fuzzy(q) ==
    /\ nreq < MaxRequests
    /\ nreq' = nreq + 1
    /\ req' = q
    /\ IF DebeBuscar(q)
       THEN /\ lookups' = 1
            /\ IF "grafo" \in caido   \* graph.query raises, nothing catches it
               THEN resp' = Response("exception", "ServiceUnavailable", "null",
                                     DNull, DNull, DNull, 0)
               ELSE \E x \in fetch_indicator_value(indic, q.dni, q.sintoma,
                                                   q.indicador_nombre) :
                       resp' = FuzzyResult(q, x)
       ELSE /\ lookups' = 0
            /\ resp' = FuzzyResult(q, q.valor)
    /\ op' = "fuzzy"
    /\ UNCHANGED <<sd, sm, sintomas, alertas, atencion, clock, rows, indic, grafo, rm, pc, caido, http>>

----------------------------------------------------------------------------
(* The /fuzzy endpoint: specification SpecFuzzy *)

Indicador(dni, sintoma, nombre, valor) ==
    [dni |-> dni, sintoma |-> sintoma, nombre |-> nombre, valor |-> valor]

\* the indicator values the graph holds
IndicCases ==
    { {},
      {Indicador(1, "Dolor", "nivel_dolor", Dec(75, -1)),
       Indicador(0, "Dolor", "nivel_dolor", Dec(5, 0))},
      {Indicador(1, "Dolor", "nivel_dolor", DNull),
       Indicador(1, "Dolor", "rango", Dec(8, 0))} }

ValorReq == {DNull, DZero, Dec(5, 0), Dec(75, -1), Dec(1, 200), Dec(1, 308)}
MediaReq == {Dec(5, 0), Dec(8, 0), Dec(1, 308)}
SigmaReq == {Dec(15, -1), Dec(12, -1), DZero, Dec(-12, -1), Dec(1, -200)}
DniReq   == {Null, Num(0), Num(1)}
SintomaReq == {SNull, Str(""), Str("Dolor")}

Requests ==
    [indicador_nombre : {"nivel_dolor"}, valor : ValorReq, media : MediaReq,
     sigma : SigmaReq, dni : DniReq, sintoma : SintomaReq]

InitFuzzy ==
    /\ sd = SeedDolor
    /\ sm = SeedMejora
    /\ sintomas = {}
    /\ alertas = <<>>
    /\ atencion = <<>>
    /\ clock = 1
    /\ rows = <<>>
    /\ op = "init"
    /\ indic \in IndicCases
    /\ req = NoRequest
    /\ resp = NoResponse
    /\ lookups = 0
    /\ nreq = 0
    /\ pc = Idle
    /\ caido = {}
    /\ http = NoCall
    /\ grafo = GrafoVacio
    /\ rm = SinCorrida

NextFuzzy == \E q \in Requests : fuzzy(q)

SpecFuzzy == InitFuzzy /\ [][NextFuzzy]_vars

----------------------------------------------------------------------------
(* monitoreo_modulo2.py: the /query endpoint.  A text is a sequence of     *)
(* lines, a line a sequence of tokens; the token " " is white space.       *)

\* the query the question asks for
Q == "MATCH (n) RETURN n"

\* the token of three backquotes that opens and closes a code block
FENCE == "<fence>"

IsBlank(l) == \A n \in 1..Len(l) : l[n] = " "

RECURSIVE LStripLine(_)
LStripLine(l) == IF l # <<>> /\ Head(l) = " " THEN LStripLine(Tail(l)) ELSE l

RECURSIVE RStripLine(_)
RStripLine(l) ==
    IF l # <<>> /\ l[Len(l)] = " " THEN RStripLine(SubSeq(l, 1, Len(l) - 1)) ELSE l

RECURSIVE LStrip(_)
LStrip(t) ==
    IF t = <<>> THEN <<>>
    ELSE IF IsBlank(Head(t)) THEN LStrip(Tail(t))
    ELSE <<LStripLine(Head(t))>> \o Tail(t)

RECURSIVE RStrip(_)
RStrip(t) ==
    IF t = <<>> THEN <<>>
    ELSE IF IsBlank(t[Len(t)]) THEN RStrip(SubSeq(t, 1, Len(t) - 1))
    ELSE SubSeq(t, 1, Len(t) - 1) \o <<RStripLine(t[Len(t)])>>

\* str.strip()
strip(t) == RStrip(LStrip(t))

\* line.startswith(tok)
LineStartsWith(l, tok) == l # <<>> /\ l[1] = tok

\* text.startswith(tok)
startswith(t, tok) == t # <<>> /\ LineStartsWith(t[1], tok)

\* str.lower() on the tokens that are prefixes
lower(tok) ==
    CASE tok \in {"Consulta:", "CONSULTA:"} -> "consulta:"
      [] tok \in {"Query:", "QUERY:"} -> "query:"
      [] tok \in {"Cypher:", "CYPHER:"} -> "cypher:"
      [] OTHER -> tok

\* if cypher.lower().startswith(p.lower()): cypher = cypher[len(p):].strip()
QuitarPrefijo(t, p) ==
    IF t # <<>> /\ t[1] # <<>> /\ lower(t[1][1]) = lower(p)
    THEN strip(<<Tail(t[1])>> \o Tail(t))
    ELSE t

clean_cypher_output(text) ==
    LET cypher == strip(text)
        sinCerca ==
            IF startswith(cypher, FENCE)
            THEN LET l1 == IF LineStartsWith(cypher[1], FENCE) THEN Tail(cypher) ELSE cypher
                     l2 == IF l1 # <<>> /\ LineStartsWith(LStripLine(RStripLine(l1[Len(l1)])), FENCE)
                           THEN SubSeq(l1, 1, Len(l1) - 1) ELSE l1
                 IN  strip(l2)
            ELSE cypher
    IN  QuitarPrefijo(QuitarPrefijo(QuitarPrefijo(sinCerca, "Consulta:"), "Query:"), "Cypher:")

\* the graph store accepts the text as a query
EsCypher(t) == t = <<<<Q>>>>

\* llm.invoke(prompt): the model answers raw, or the call raises
llm_invoke(question, raw, caidos) ==
    IF "llm" \in caidos
    THEN [falla |-> "ConnectionError", texto |-> <<>>,
          llamadas |-> <<Llamada("llm", <<<<question>>>>, "ConnectionError")>>]
    ELSE [falla |-> "", texto |-> raw,
          llamadas |-> <<[Llamada("llm", <<<<question>>>>, "") EXCEPT !.respuesta = raw]>>]

\* generate_cypher(question): one call to the model, its answer cleaned
generate_cypher(question, raw, caidos) ==
    LET response == llm_invoke(question, raw, caidos)
    IN  [falla |-> response.falla,
         cypher |-> IF response.falla = "" THEN clean_cypher_output(response.texto) ELSE <<>>,
         llamadas |-> response.llamadas]

\* what graph.query(cypher) raises: the store is down, or rejects the text
FallaDelGrafo(cypher, caidos) ==
    IF "grafo" \in caidos THEN "ServiceUnavailable"
    ELSE IF ~EsCypher(cypher) THEN "CypherSyntaxError"
    ELSE ""

\* a run that calls the store again when the call failed
run_cypher_query_Reintenta(cypher, caidos) ==
    LET f == FallaDelGrafo(cypher, caidos)
    IN  [falla |-> f,
         llamadas |-> IF f = "" THEN <<Llamada("grafo", cypher, f)>>
                      ELSE <<Llamada("grafo", cypher, f), Llamada("grafo", cypher, f)>>]

\* run_cypher_query(cypher): one graph.query(cypher)
run_cypher_query(cypher, caidos) ==
    LET f == FallaDelGrafo(cypher, caidos)
    IN  [falla |-> f, llamadas |-> <<Llamada("grafo", cypher, f)>>]

\* an except branch that answers with a fixed message and without the query
ErrorDeConsulta_Generico(e, cypher, llamadas) ==
    HttpResp("/query", "error", "error", <<>>, {"error"}, llamadas)

\* except Exception as e: return {"error": str(e), "cypher_generado": cypher}
ErrorDeConsulta(e, cypher, llamadas) ==
    HttpResp("/query", "error", e, cypher, {"error", "cypher_generado"}, llamadas)

\* the handler of GET /query
QueryResult(question, explain, raw, caidos) ==
    LET gen == generate_cypher(question, raw, caidos)
        run == run_cypher_query(gen.cypher, caidos)
    IN  IF gen.falla # ""        \* raised outside the try
        THEN HttpResp("/query", "exception", gen.falla, <<>>, {}, gen.llamadas)
        ELSE IF run.falla # ""
        THEN ErrorDeConsulta(run.falla, gen.cypher, gen.llamadas \o run.llamadas)
        ELSE HttpResp("/query", "ok", "", gen.cypher,
                      IF explain THEN {"question", "cypher", "result"}
                      ELSE {"cypher", "result"},
                      gen.llamadas \o run.llamadas)

query(question, explain, raw) ==
    /\ http' = QueryResult(question, explain, raw, caido)
    /\ op' = "query"
    /\ UNCHANGED <<sd, sm, sintomas, alertas, atencion, clock, rows, indic, grafo, rm, req, resp,
                   lookups, nreq, pc, caido>>

----------------------------------------------------------------------------
(* esguincestorceduras.py: the /query_clinico endpoint *)

\* chain_clinico.invoke(...): the chain asks the model for a query, runs it,
\* and asks the model for the answer; what a call raises leaves the chain
chain_invoke(question, caidos) ==
    LET gen == llm_invoke(question, <<<<Q>>>>, caidos)
        f   == IF "grafo" \in caidos THEN "ServiceUnavailable" ELSE ""
        run == <<Llamada("grafo", gen.texto, f)>>
    IN  IF gen.falla # "" THEN [falla |-> gen.falla, llamadas |-> gen.llamadas]
        ELSE IF f # "" THEN [falla |-> f, llamadas |-> gen.llamadas \o run]
        ELSE [falla |-> "",
              llamadas |-> gen.llamadas \o run \o <<Llamada("llm", <<<<"answer">>>>, "")>>]

query_clinico(question, explain) ==
    LET result == chain_invoke(question, caido)
    IN  /\ http' = IF result.falla # ""
                   THEN HttpResp("/query_clinico", "exception", result.falla, <<>>, {},
                                 result.llamadas)
                   ELSE HttpResp("/query_clinico", "ok", "", <<>>,
                                 IF explain THEN {"query", "result", "intermediate_steps"}
                                 ELSE {"answer"},
                                 result.llamadas)
        /\ op' = "query_clinico"
        /\ UNCHANGED <<sd, sm, sintomas, alertas, atencion, clock, rows, indic, grafo, rm, req, resp,
                       lookups, nreq, pc, caido>>

----------------------------------------------------------------------------
(* esguincestorceduras.py: the /query_monitoreo endpoint *)

\* a test of the question itself: whitespace counts as a question
PreguntaVacia_SinStrip(question) == question = <<>>

\* not question.strip()
PreguntaVacia(question) == strip(question) = <<>>

\* chain_monitoreo.invoke(...): the chain asks the model for a query about
\* the question as it came, runs it, and asks the model for the answer; what
\* a call raises leaves the chain
chain_monitoreo_invoke(question, caidos) ==
    LET fl  == IF "llm" \in caidos THEN "ConnectionError" ELSE ""
        fg  == IF "grafo" \in caidos THEN "ServiceUnavailable" ELSE ""
        gen == <<[Llamada("llm", question, fl) EXCEPT
                    !.respuesta = IF fl = "" THEN <<<<Q>>>> ELSE <<>>]>>
        run == <<Llamada("grafo", <<<<Q>>>>, fg)>>
    IN  IF fl # "" THEN [falla |-> fl, llamadas |-> gen]
        ELSE IF fg # "" THEN [falla |-> fg, llamadas |-> gen \o run]
        ELSE [falla |-> "",
              llamadas |-> gen \o run \o <<Llamada("llm", <<<<"answer">>>>, "")>>]

query_monitoreo(question, explain) ==
    LET result == chain_monitoreo_invoke(question, caido)
        r == IF PreguntaVacia(question)
             THEN HttpResp("/query_monitoreo", "error", "pregunta vacia", <<>>, {"error"},
                           <<>>)
             ELSE IF result.falla # ""
             THEN HttpResp("/query_monitoreo", "exception", result.falla, <<>>, {},
                           result.llamadas)
             ELSE HttpResp("/query_monitoreo", "ok", "", <<>>,
                           IF explain THEN {"query", "result", "intermediate_steps"}
                           ELSE {"answer"},
                           result.llamadas)
    IN  /\ http' = [r EXCEPT !.pregunta = question]
        /\ op' = "query_monitoreo"
        /\ UNCHANGED <<sd, sm, sintomas, alertas, atencion, clock, rows, indic, grafo, rm, req, resp,
                       lookups, nreq, pc, caido>>

----------------------------------------------------------------------------
(* The endpoints and their collaborators: specification SpecHttp *)

Colaboradores == {"grafo", "llm"}

\* a collaborator goes down
Fallar(c) ==
    /\ c \notin caido
    /\ caido' = caido \cup {c}
    /\ op' = "fallar"
    /\ UNCHANGED <<sd, sm, sintomas, alertas, atencion, clock, rows, indic, grafo, rm, req, resp,
                   lookups, nreq, pc, http>>

\* a collaborator comes back
Reponer(c) ==
    /\ c \in caido
    /\ caido' = caido \ {c}
    /\ op' = "reponer"
    /\ UNCHANGED <<sd, sm, sintomas, alertas, atencion, clock, rows, indic, grafo, rm, req, resp,
                   lookups, nreq, pc, http>>

Preguntas == {"cuantos pacientes hay"}

\* the questions put to /query_monitoreo: empty, of whitespace only, and not
PreguntasMonitoreo ==
    { <<>>,
      <<<<" ", " ">>>>,
      <<<<" ">>, <<>>, <<" ">>>>,
      <<<<" ", "cada cuanto se controla", " ">>>>,
      <<<<"cada cuanto se controla">>>> }

\* what the language model answers
RawTexts ==
    { <<<<Q>>>>,
      <<<<FENCE, "cypher">>, <<Q>>, <<FENCE>>>>,
      <<<<FENCE, Q, FENCE>>>>,
      <<<<" ">>, <<"Consulta:", " ", Q>>, <<>>>>,
      <<<<FENCE>>, <<"QUERY:", " ", Q>>, <<" ", FENCE>>>>,
      <<<<FENCE>>, <<Q>>, <<FENCE>>, <<"Espero que ayude">>>>,
      <<<<"Lo siento">>>> }

\* the /fuzzy requests made to the endpoints
RequestsHttp ==
    [indicador_nombre : {"nivel_dolor"}, valor : {DNull, Dec(75, -1)}, media : {Dec(8, 0)},
     sigma : {Dec(12, -1)}, dni : {Null, Num(1)}, sintoma : {Str("Dolor")}]

InitHttp ==
    /\ sd = SeedDolor
    /\ sm = SeedMejora
    /\ sintomas \in {{}, {Path(1, 1, "Dolor", "Intenso")}}
    /\ alertas = <<>>
    /\ atencion = <<>>
    /\ clock = 1
    /\ rows = <<>>
    /\ op = "init"
    /\ indic = {Indicador(1, "Dolor", "nivel_dolor", Dec(75, -1))}
    /\ req = NoRequest
    /\ resp = NoResponse
    /\ lookups = 0
    /\ nreq = 0
    /\ pc = Idle
    /\ caido = {}
    /\ http = NoCall
    /\ grafo = GrafoVacio
    /\ rm = SinCorrida

NextHttp ==
    \/ \E question \in Preguntas, explain \in BOOLEAN, raw \in RawTexts :
          query(question, explain, raw)
    \/ \E question \in Preguntas, explain \in BOOLEAN : query_clinico(question, explain)
    \/ \E question \in PreguntasMonitoreo, explain \in BOOLEAN :
          query_monitoreo(question, explain)
    \/ ejecutar_regla_hematoma_severo
    \/ \E q \in RequestsHttp : fuzzy(q)
    \/ \E c \in Colaboradores : Fallar(c)
    \/ \E c \in Colaboradores : Reponer(c)

SpecHttp == InitHttp /\ [][NextHttp]_vars

----------------------------------------------------------------------------
(* logicaDifusa.py: the seed script and run_many (specification SpecSeed) *)

\* how many times the program is started
MaxCorridas == 2

\* a node: its labels and the value of the property its MERGE pattern keys on
Nodo(labels, clave) == [labels |-> labels, clave |-> clave]

\* a node pattern (var:Labels {key}); (var) alone is Ref(var)
Pat(var, labels, clave) == [var |-> var, labels |-> labels, clave |-> clave]
Ref(var) == Pat(var, {}, "")
SinPat == Pat("", {}, "")

\* the pieces of a script line
Tok(c, de, tipo, a) == [c |-> c, de |-> de, tipo |-> tipo, a |-> a]
MERGE_N(n) == Tok("merge_node", n, "", SinPat)
MERGE_R(de, tipo, a) == Tok("merge_rel", de, tipo, a)
TEXTO == Tok("text", SinPat, "", SinPat)       \* ON CREATE SET and its assignments
PUNTOYCOMA == Tok(";", SinPat, "", SinPat)
COMENTARIO == Tok("//", SinPat, "", SinPat)

\* seed_esguinces.splitlines(): element n is line 90 + n of the source
seed_esguinces ==
    << <<>>,
       <<COMENTARIO>>,
       <<MERGE_N(Pat("", {"Frame"}, "Paciente")), PUNTOYCOMA>>,
       <<MERGE_N(Pat("", {"Frame"}, "Sintoma")), PUNTOYCOMA>>,
       <<MERGE_N(Pat("", {"Frame"}, "TipoLesion")), PUNTOYCOMA>>,
       <<MERGE_N(Pat("", {"Frame"}, "Diagnostico")), PUNTOYCOMA>>,
       <<MERGE_N(Pat("", {"Frame"}, "Monitoreo")), PUNTOYCOMA>>,
       <<MERGE_N(Pat("", {"Frame"}, "Frecuencia")), PUNTOYCOMA>>,
       <<>>,
       <<COMENTARIO>>,
       <<MERGE_N(Pat("p", {"Paciente"}, "P-001")), PUNTOYCOMA>>,
       <<>>,
       <<MERGE_N(Pat("caso", {"FrameInstance"}, "Caso-001"))>>,
       <<MERGE_R(Ref("caso"), "INSTANCE_OF", Pat("", {"Frame"}, "Diagnostico")), PUNTOYCOMA>>,
       <<>>,
       <<COMENTARIO>>,
       <<COMENTARIO>>,
       <<MERGE_N(Pat("s_dolor", {"Slot", "Dolor"}, "dolor_actual"))>>,
       <<TEXTO, PUNTOYCOMA>>,
       <<>>,
       <<COMENTARIO>>,
       <<MERGE_N(Pat("s_grav", {"Slot", "Gravedad"}, "gravedad_aparente"))>>,
       <<TEXTO, PUNTOYCOMA>>,
       <<>>,
       <<COMENTARIO>>,
       <<MERGE_N(Pat("s_mej", {"Slot", "Mejora"}, "mejora_observada"))>>,
       <<TEXTO>>,
       <<TEXTO>>,
       <<COMENTARIO>>,
       <<TEXTO>>,
       <<TEXTO>>,
       <<TEXTO, PUNTOYCOMA>>,
       <<>>,
       <<COMENTARIO>>,
       <<MERGE_N(Pat("s_freq", {"Slot", "Frecuencia"}, "intervalo_controles"))>>,
       <<TEXTO, PUNTOYCOMA>>,
       <<>>,
       <<COMENTARIO>>,
       <<MERGE_R(Ref("caso"), "TIENE_SLOT", Ref("s_dolor")), PUNTOYCOMA>>,
       <<MERGE_R(Ref("caso"), "TIENE_SLOT", Ref("s_grav")), PUNTOYCOMA>>,
       <<MERGE_R(Ref("caso"), "TIENE_SLOT", Ref("s_mej")), PUNTOYCOMA>>,
       <<MERGE_R(Ref("caso"), "TIENE_SLOT", Ref("s_freq")), PUNTOYCOMA>>,
       <<>>,
       <<COMENTARIO>>,
       <<MERGE_N(Pat("si", {"Sintoma"}, "Dolor tobillo")), PUNTOYCOMA>>,
       <<MERGE_N(Pat("tl", {"TipoLesion"}, "Esguince tobillo")), PUNTOYCOMA>>,
       <<MERGE_N(Pat("dg", {"Diagnostico"}, "D-001")), PUNTOYCOMA>>,
       <<MERGE_N(Pat("mon", {"Monitoreo"}, "M-001")), PUNTOYCOMA>>,
       <<MERGE_N(Pat("frec", {"Frecuencia"}, "Controles clinicos")), PUNTOYCOMA>>,
       <<>>,
       <<COMENTARIO>>,
       <<MERGE_R(Ref("p"), "PRESENTA_SINTOMA", Ref("si"))>>,
       <<TEXTO>>,
       <<TEXTO>>,
       <<TEXTO, PUNTOYCOMA>>,
       <<>>,
       <<COMENTARIO>>,
       <<MERGE_R(Ref("si"), "ASOCIA_A", Ref("tl"))>>,
       <<TEXTO>>,
       <<TEXTO>>,
       <<TEXTO, PUNTOYCOMA>>,
       <<>>,
       <<COMENTARIO>>,
       <<MERGE_R(Ref("tl"), "ESPECIFICA_EN", Ref("dg"))>>,
       <<TEXTO>>,
       <<TEXTO>>,
       <<TEXTO, PUNTOYCOMA>>,
       <<>>,
       <<COMENTARIO>>,
       <<MERGE_R(Ref("dg"), "PROGRAMA", Ref("mon"))>>,
       <<TEXTO>>,
       <<TEXTO>>,
       <<TEXTO, PUNTOYCOMA>>,
       <<>>,
       <<COMENTARIO>>,
       <<MERGE_R(Ref("mon"), "OCURRE_CADA", Ref("frec"))>>,
       <<TEXTO>>,
       <<TEXTO>>,
       <<TEXTO, PUNTOYCOMA>> >>

\* the variables the script names; a row binds each to a node, 0 when unbound
VarsCypher ==
    {"p", "caso", "s_dolor", "s_grav", "s_mej", "s_freq", "si", "tl", "dg", "mon", "frec"}
FilaVacia == [v \in VarsCypher |-> 0]
Ligada(fila, v) == v # "" /\ fila[v] # 0
Ligar(fila, v, i) == IF v = "" THEN fila ELSE [fila EXCEPT ![v] = i]

\* node i fits the pattern in this row
Casa(g, fila, pat, i) ==
    /\ Ligada(fila, pat.var) => i = fila[pat.var]
    /\ pat.labels \subseteq g.nodos[i].labels
    /\ pat.clave = "" \/ g.nodos[i].clave = pat.clave

Relacion(tipo, de, a) == [tipo |-> tipo, de |-> de, a |-> a]

\* one row per match, in the order of the store
RECURSIVE FilasNodo(_, _, _)
FilasNodo(fila, v, I) ==
    IF I = {} THEN <<>>
    ELSE LET i == CHOOSE x \in I : \A y \in I : x <= y
         IN  <<Ligar(fila, v, i)>> \o FilasNodo(fila, v, I \ {i})

RECURSIVE FilasRel(_, _, _, _)
FilasRel(g, fila, cl, R) ==
    IF R = {} THEN <<>>
    ELSE LET n == CHOOSE x \in R : \A y \in R : x <= y
         IN  <<Ligar(Ligar(fila, cl.de.var, g.rels[n].de), cl.a.var, g.rels[n].a)>>
             \o FilasRel(g, fila, cl, R \ {n})

\* MERGE (var:Labels {key}): the matching nodes, or a new one
MergeNodo(g, fila, pat) ==
    LET found == {i \in 1..Len(g.nodos) : Casa(g, fila, pat, i)}
    IN  IF found # {}
        THEN [g |-> g, filas |-> FilasNodo(fila, pat.var, found)]
        ELSE [g |-> [g EXCEPT !.nodos = Append(@, Nodo(pat.labels, pat.clave))],
              filas |-> <<Ligar(fila, pat.var, Len(g.nodos) + 1)>>]

\* MERGE (x)-[:T]->(y): the whole pattern is matched, or the whole pattern is
\* created, a new node standing for every end the row does not bind
MergeRel(g, fila, cl) ==
    LET found == {n \in 1..Len(g.rels) :
                    /\ g.rels[n].tipo = cl.tipo
                    /\ Casa(g, fila, cl.de, g.rels[n].de)
                    /\ Casa(g, fila, cl.a, g.rels[n].a)}
        g1 == IF Ligada(fila, cl.de.var) THEN g
              ELSE [g EXCEPT !.nodos = Append(@, Nodo(cl.de.labels, cl.de.clave))]
        d  == IF Ligada(fila, cl.de.var) THEN fila[cl.de.var] ELSE Len(g1.nodos)
        g2 == IF Ligada(fila, cl.a.var) THEN g1
              ELSE [g1 EXCEPT !.nodos = Append(@, Nodo(cl.a.labels, cl.a.clave))]
        a  == IF Ligada(fila, cl.a.var) THEN fila[cl.a.var] ELSE Len(g2.nodos)
    IN  IF found # {}
        THEN [g |-> g, filas |-> FilasRel(g, fila, cl, found)]
        ELSE [g |-> [g2 EXCEPT !.rels = Append(@, Relacion(cl.tipo, d, a))],
              filas |-> <<Ligar(Ligar(fila, cl.de.var, d), cl.a.var, a)>>]

\* one clause on one row
Clausula(g, fila, cl) ==
    IF cl.c = "merge_node" THEN MergeNodo(g, fila, cl.de)
    ELSE IF cl.c = "merge_rel" THEN MergeRel(g, fila, cl)
    ELSE [g |-> g, filas |-> <<fila>>]

\* one clause on every row the clauses before it produced
RECURSIVE PorFila(_, _, _)
PorFila(g, filas, cl) ==
    IF filas = <<>> THEN [g |-> g, filas |-> <<>>]
    ELSE LET uno   == Clausula(g, Head(filas), cl)
             resto == PorFila(uno.g, Tail(filas), cl)
         IN  [g |-> resto.g, filas |-> uno.filas \o resto.filas]

RECURSIVE Consulta(_, _, _)
Consulta(g, filas, stmt) ==
    IF stmt = <<>> THEN g
    ELSE LET r == PorFila(g, filas, Head(stmt))
         IN  Consulta(r.g, r.filas, Tail(stmt))

\* with driver.session() as session: session.run(stmt)
\* (a statement starts with no variable bound)
session_run(g, stmt) == Consulta(g, <<FilaVacia>>, stmt)

\* "\n".join(current)
RECURSIVE Join(_)
Join(lines) == IF lines = <<>> THEN <<>> ELSE Head(lines) \o Join(Tail(lines))

\* stmt.split(";")
RECURSIVE SplitAcc(_, _, _)
SplitAcc(toks, cur, acc) ==
    IF toks = <<>> THEN Append(acc, cur)
    ELSE IF Head(toks).c = ";" THEN SplitAcc(Tail(toks), <<>>, Append(acc, cur))
    ELSE SplitAcc(Tail(toks), Append(cur, Head(toks)), acc)
split(toks) == SplitAcc(toks, <<>>, <<>>)

\* the parts that are not blank, in order
RECURSIVE NoVacias(_)
NoVacias(parts) ==
    IF parts = <<>> THEN <<>>
    ELSE (IF Head(parts) # <<>> THEN <<Head(parts)>> ELSE <<>>) \o NoVacias(Tail(parts))

\* if __name__ == "__main__": run_many(seed_esguinces)
main_seed ==
    /\ rm.fase \in {"idle", "fin"}
    /\ rm.corridas < MaxCorridas
    /\ rm' = [fase |-> "leer", script |-> seed_esguinces, i |-> 0, current |-> <<>>,
              statements |-> <<>>, k |-> 0, corridas |-> rm.corridas]
    /\ op' = "main"
    /\ UNCHANGED <<sd, sm, sintomas, alertas, atencion, clock, rows, indic, grafo, req,
                   resp, lookups, nreq, pc, caido, http>>

\* one pass of: for line in script.splitlines()
run_many_linea ==
    /\ rm.fase = "leer"
    /\ rm.i < Len(rm.script)
    /\ LET line == rm.script[rm.i + 1]
           cur  == Append(rm.current, line)
           parts == split(Join(cur))
           last == parts[Len(parts)]
       IN  IF line = <<>> \/ Head(line).c = "//"
           THEN rm' = [rm EXCEPT !.i = @ + 1]
           ELSE IF \E n \in 1..Len(line) : line[n].c = ";"
           THEN rm' = [rm EXCEPT !.i = @ + 1,
                                 !.statements = @ \o NoVacias(SubSeq(parts, 1, Len(parts) - 1)),
                                 !.current = IF last # <<>> THEN <<last>> ELSE <<>>]
           ELSE rm' = [rm EXCEPT !.i = @ + 1, !.current = cur]
    /\ op' = "run_many"
    /\ UNCHANGED <<sd, sm, sintomas, alertas, atencion, clock, rows, indic, grafo, req,
                   resp, lookups, nreq, pc, caido, http>>

\* tail = "\n".join(current).strip(); if tail: statements.append(tail)
run_many_tail ==
    /\ rm.fase = "leer"
    /\ rm.i = Len(rm.script)
    /\ rm' = [rm EXCEPT !.fase = "ejecutar",
                        !.statements = @ \o NoVacias(<<Join(rm.current)>>)]
    /\ op' = "run_many"
    /\ UNCHANGED <<sd, sm, sintomas, alertas, atencion, clock, rows, indic, grafo, req,
                   resp, lookups, nreq, pc, caido, http>>

\* one pass of: for stmt in statements
run_many_stmt ==
    /\ rm.fase = "ejecutar"
    /\ rm.k < Len(rm.statements)
    /\ grafo' = session_run(grafo, rm.statements[rm.k + 1])
    /\ rm' = [rm EXCEPT !.k = @ + 1]
    /\ op' = "run_many"
    /\ UNCHANGED <<sd, sm, sintomas, alertas, atencion, clock, rows, indic, req,
                   resp, lookups, nreq, pc, caido, http>>

\* return results
run_many_return ==
    /\ rm.fase = "ejecutar"
    /\ rm.k = Len(rm.statements)
    /\ rm' = [rm EXCEPT !.fase = "fin", !.corridas = @ + 1]
    /\ op' = "run_many"
    /\ UNCHANGED <<sd, sm, sintomas, alertas, atencion, clock, rows, indic, grafo, req,
                   resp, lookups, nreq, pc, caido, http>>

InitSeed ==
    /\ sd = SeedDolor
    /\ sm = SeedMejora
    /\ sintomas = {}
    /\ alertas = <<>>
    /\ atencion = <<>>
    /\ clock = 1
    /\ rows = <<>>
    /\ op = "init"
    /\ indic = {}
    /\ req = NoRequest
    /\ resp = NoResponse
    /\ lookups = 0
    /\ nreq = 0
    /\ pc = Idle
    /\ caido = {}
    /\ http = NoCall
    /\ grafo = GrafoVacio
    /\ rm = SinCorrida

NextSeed ==
    \/ main_seed
    \/ run_many_linea
    \/ run_many_tail
    \/ run_many_stmt
    \/ run_many_return

SpecSeed == InitSeed /\ [][NextSeed]_vars

----------------------------------------------------------------------------
(* Properties of the alert rules (specification Spec) *)

RuleOps == {"rule_alerta_riesgo_alto", "regla_hematoma"}

\* the timestamp a rule gives the alert it creates
CreationTs(al) == IF al.codigo = "RIESGO_ALTO_ESGUINCE" THEN al.ts ELSE al.created_at

\* the stored degree, a degree that is not stored counting as 0
Stored(p) == IF p.k = "num" THEN p.v ELSE 0

\* severe pain >= 0.7 and low improvement >= 0.6, on the stored degrees
PredicadoRiesgo ==
    /\ sd.exists /\ sm.exists
    /\ Stored(sd.mu_severo) >= 700000
    /\ Stored(sm.mu_baja) >= 600000

\* some patient presents a symptom the categorical rule matches
PredicadoDolor ==
    \E x \in sintomas : x.intensidad = "Intenso" /\ x.nombre \in {"Dolor", "dolor", "DOLOR"}

\* C1: firing a rule any number of times leaves at most one Alert per code,
\* exactly one with the rule's code once it fired, and never overwrites the
\* creation timestamp an existing Alert carries.
C1_UpsertIdempotente ==
    [][op' \in RuleOps =>
          /\ \A c \in {"RIESGO_ALTO_ESGUINCE", "DERIVACION_INMEDIATA_DOLOR"} :
                Cardinality(AlertasCon(alertas', c)) <= 1
          /\ rows' # <<>> =>
                Cardinality(AlertasCon(alertas',
                    IF op' = "rule_alerta_riesgo_alto" THEN "RIESGO_ALTO_ESGUINCE"
                    ELSE "DERIVACION_INMEDIATA_DOLOR")) = 1
          /\ \A i \in 1..Len(alertas) :
                /\ i <= Len(alertas')
                /\ alertas'[i].codigo = alertas[i].codigo
                /\ CreationTs(alertas'[i]) = CreationTs(alertas[i])]_vars

\* C2: a rule firing creates an alert as active (resuelta = false) and leaves
\* the state of every existing alert, active or resolved, as it was: no rule
\* firing moves a resolved alert back to active.
C2_MaquinaDeEstados ==
    [][op' \in RuleOps =>
          /\ Len(alertas') >= Len(alertas)
          /\ \A i \in 1..Len(alertas') :
                IF i <= Len(alertas)
                THEN alertas'[i].resuelta = alertas[i].resuelta
                ELSE alertas'[i].resuelta = FALSE]_vars

\* C3: a rule whose predicate does not hold when it runs creates no Alert,
\* changes no Alert, relationship or slot, and returns no rows.
C3_SinDisparoSinEfecto ==
    [][(\/ op' = "rule_alerta_riesgo_alto" /\ ~PredicadoRiesgo
        \/ op' = "regla_hematoma" /\ ~PredicadoDolor)
       => /\ rows' = <<>>
          /\ UNCHANGED <<alertas, atencion, sd, sm, sintomas>>]_vars

\* a risk rule that did not fire, run on a graph that holds an alert and a relationship
C3_Witness ==
    /\ op = "rule_alerta_riesgo_alto"
    /\ ~PredicadoRiesgo
    /\ rows = <<>>
    /\ alertas # <<>>
    /\ atencion # <<>>

\* C4: the risk rule returns the alert RIESGO_ALTO_ESGUINCE exactly when the
\* stored severe-pain degree is >= 0.7 and the stored low-improvement degree is
\* >= 0.6 (both inclusive, a degree not stored counting as 0), and then the
\* alert is in the graph, unresolved.
C4_UmbralesRiesgo ==
    op = "rule_alerta_riesgo_alto" =>
        /\ (rows # <<>>) <=> PredicadoRiesgo
        /\ PredicadoRiesgo =>
              /\ \E i \in 1..Len(alertas) :
                    alertas[i].codigo = "RIESGO_ALTO_ESGUINCE" /\ ~alertas[i].resuelta
              /\ \A n \in 1..Len(rows) : rows[n].codigo = "RIESGO_ALTO_ESGUINCE"

\* the rule fired on severe = 0.75, low = 0.62
C4_Witness ==
    /\ op = "rule_alerta_riesgo_alto"
    /\ sd.mu_severo = Num(750000)
    /\ sm.mu_baja = Num(620000)
    /\ rows # <<>>

----------------------------------------------------------------------------
(* Properties of /fuzzy and of gaussian_membership (specification SpecFuzzy) *)

\* no value can be resolved: none supplied, and a lookup key missing or no
\* value in the graph for the patient, symptom and indicator
SinValor(q, g) ==
    /\ q.valor.k = "null"
    /\ \/ q.dni.k = "null"
       \/ q.sintoma.k = "null"
       \/ \A i \in IndicadorRows(g, q.dni, q.sintoma, q.indicador_nombre) : i.valor.k = "null"

\* C5: /fuzzy returns the error payload exactly when no value can be resolved;
\* with no value supplied and both lookup keys given (any dni, 0 included) the
\* lookup is performed.
C5_ErrorSoloSinValor ==
    op = "fuzzy" =>
        /\ (resp.kind = "error") <=> SinValor(req, indic)
        /\ (req.valor.k = "null" /\ req.dni.k # "null" /\ req.sintoma.k # "null")
              => lookups = 1

\* C6: gaussian_membership returns exactly 0.0, and raises nothing, for every
\* x and mu when sigma <= 0; so does a /fuzzy request that resolved a value.
C6_SigmaNoPositiva ==
    (op = "fuzzy" /\ req.sigma.m <= 0) =>
        /\ \A x \in ValorReq \ {DNull} :
              gaussian_membership(x, req.media, req.sigma) = Returned(0)
        /\ resp.kind # "error" => (resp.kind = "ok" /\ resp.pertenencia = 0)

\* a request with a negative sigma and a huge value answered with degree 0
C6_Witness ==
    /\ op = "fuzzy"
    /\ req.sigma = Dec(-12, -1)
    /\ req.valor = Dec(1, 200)
    /\ resp.kind = "ok"
    /\ resp.pertenencia = 0

\* C10: for every centre and every spread > 0, however small, the membership
\* of the centre itself is exactly 1.0.
C10_CentroExacto ==
    (op = "fuzzy" /\ req.valor.k = "num" /\ req.valor = req.media /\ req.sigma.m > 0) =>
        /\ gaussian_membership(req.valor, req.media, req.sigma) = Returned(ONE)
        /\ resp.kind = "ok" /\ resp.pertenencia = ONE

\* 2 * center - x, as float arithmetic computes it: 2 * center overflows to
\* an infinity, the difference absorbs the operand that is too small
Reflejo(x, c) ==
    LET t == DTwice(c)
    IN  IF t.k = "inf" THEN DInf ELSE DSub(t, x)

\* 2 * center - x is computed without overflow and without rounding
ReflejoExacto(x, c) ==
    LET t == DTwice(c)
    IN  /\ t.k = "num"
        /\ \/ t.m = 0 \/ x.m = 0
           \/ (Mag(t) - Mag(x) <= ABSORB /\ Mag(x) - Mag(t) <= ABSORB)
        /\ Reflejo(x, c).k = "num"

\* C11 as stated: for every x, centre and spread > 0 the membership of x and
\* of 2 * centre - x are equal.
C11_Simetria ==
    (op = "fuzzy" /\ req.valor.k = "num" /\ req.sigma.m > 0) =>
        gaussian_membership(req.valor, req.media, req.sigma)
            = gaussian_membership(Reflejo(req.valor, req.media), req.media, req.sigma)

\* C11: for every x, centre and spread > 0 such that 2 * centre - x is
\* computed exactly (no overflow, no rounding), gaussian_membership has the
\* same outcome, value or exception, at x and at 2 * centre - x.
C11_SimetriaExacta ==
    (op = "fuzzy" /\ req.valor.k = "num" /\ req.sigma.m > 0
        /\ ReflejoExacto(req.valor, req.media)) =>
        gaussian_membership(req.valor, req.media, req.sigma)
            = gaussian_membership(Reflejo(req.valor, req.media), req.media, req.sigma)

\* membership(7.5, 8.0, 1.2) answered, equal to membership(8.5, 8.0, 1.2)
C11_Witness ==
    /\ op = "fuzzy"
    /\ req.valor = Dec(75, -1) /\ req.media = Dec(8, 0) /\ req.sigma = Dec(12, -1)
    /\ Reflejo(req.valor, req.media) = Dec(85, -1)
    /\ resp.kind = "ok"
    /\ resp.pertenencia = PyRound4(gaussian_membership(Dec(85, -1), req.media, req.sigma).v)
    /\ resp.pertenencia > 0 /\ resp.pertenencia < ONE

\* C12: gaussian_membership is total: for every numeric x, centre and spread
\* it raises nothing and returns a number in [0, 1]; a /fuzzy request that
\* resolved a value is answered with that degree.
C12_Total ==
    (op = "fuzzy" /\ req.valor.k = "num") =>
        LET mu == gaussian_membership(req.valor, req.media, req.sigma)
        IN  /\ mu.exc = "none"
            /\ mu.k = "num" /\ 0 <= mu.v /\ mu.v <= ONE
            /\ resp.kind = "ok"

----------------------------------------------------------------------------
(* Properties of the slot queries (specification SpecSlot) *)

NoPositiva(b) == b.k = "num" /\ b.m <= 0

\* C7: the fuzzification writes degree 0 for every category whose stored
\* spread is zero or negative, whatever the crisp value.
C7_DispersionDegenerada ==
    (op = "fuzz_gauss_dolor" /\ rows # <<>>) =>
        /\ NoPositiva(sd.b_leve) => sd.mu_leve = Num(0)
        /\ NoPositiva(sd.b_moderado) => sd.mu_moderado = Num(0)
        /\ NoPositiva(sd.b_severo) => sd.mu_severo = Num(0)

\* a degree in [0, 1], or one that is not stored
EnUnidad(u) == u.k = "null" \/ (u.k = "num" /\ 0 <= u.v /\ u.v <= ONE)

VectorEnUnidad == EnUnidad(sd.mu_leve) /\ EnUnidad(sd.mu_moderado) /\ EnUnidad(sd.mu_severo)

\* C8 as stated: the entropy stored for a vector of degrees in [0, 1] lies in [0, 1].
C8_EntropiaEnUnidad ==
    (op = "entropy_dolor" /\ VectorEnUnidad) =>
        sd.entropia.k = "num" /\ 0 <= sd.entropia.v /\ sd.entropia.v <= ONE

\* C8: the entropy stored for a vector of three degrees in [0, 1] lies in
\* [0, 1.0046]: 3 / (e ln 3), the value at three degrees of 1/e, to 4 decimals.
C8_EntropiaAcotada ==
    (op = "entropy_dolor" /\ VectorEnUnidad) =>
        sd.entropia.k = "num" /\ 0 <= sd.entropia.v /\ sd.entropia.v <= 1004600

\* the entropy of three degrees next to 1/e, stored at the bound
C8_Witness ==
    /\ op = "entropy_dolor"
    /\ VectorEnUnidad
    /\ sd.mu_leve = Num(367879)
    /\ sd.entropia = Num(1004600)

\* every stored degree is 0, or one is 1 and the others are 0
VectorDegenerado ==
    LET U == <<sd.mu_leve, sd.mu_moderado, sd.mu_severo>>
    IN  /\ \A i \in 1..3 : U[i] \in {Num(0), Num(ONE)}
        /\ Cardinality({i \in 1..3 : U[i] = Num(ONE)}) <= 1

\* C9: the entropy step stores exactly 0 when every stored degree is 0 and
\* when one is 1 and the others are 0; a degree of 0 adds 0 to the sum.
C9_EntropiaCero ==
    (op = "entropy_dolor" /\ VectorDegenerado) => sd.entropia = Num(0)

\* the entropy of [1.0, 0.0, 0.0], stored as 0
C9_Witness ==
    /\ op = "entropy_dolor"
    /\ sd.mu_leve = Num(ONE) /\ sd.mu_moderado = Num(0) /\ sd.mu_severo = Num(0)
    /\ sd.entropia = Num(0)


\* the degrees the slot stores, in the order leve, moderado, severo
VectorGuardado == <<sd.mu_leve, sd.mu_moderado, sd.mu_severo>>

\* the entropy the entropy step computes from the stored degrees
EntropiaDelVector ==
    RoundEntropia(Hnorm(<<coalesce(sd.mu_leve, Num(0)), coalesce(sd.mu_moderado, Num(0)),
                          coalesce(sd.mu_severo, Num(0))>>))

\* C13: when the slot has no crisp value the fuzzification returns no row and
\* leaves the stored degrees and fuzzy_last_updated (the whole slot) as they were.
C13_SinValorSeOmite ==
    [][(op' = "fuzz_gauss_dolor" /\ sd.valor_crisp.k = "null")
       => (rows' = <<>> /\ sd' = sd)]_vars

\* a fuzzification skipped, at a later time, on a slot with categories and
\* degrees of an earlier fuzzification
C13_Witness ==
    /\ op = "fuzz_gauss_dolor"
    /\ sd.valor_crisp.k = "null"
    /\ sd.funcion_pertenencia = "gaussiana"
    /\ rows = <<>>
    /\ sd.mu_severo.k = "num"
    /\ sd.fuzzy_last_updated = Num(1)
    /\ clock = 2

\* C14: for a slot that was never fuzzified (no stored degree) the entropy
\* step persists no entropy value.
C14_SinVectorSinEntropia ==
    (op = "entropy_dolor" /\ sd.fuzzy_last_updated.k = "null"
        /\ VectorGuardado = <<Null, Null, Null>>)
    => sd.entropia.k = "null"

\* C15: in every state a completed fuzzification leaves, the stored entropy
\* is the entropy (rounded to 4 decimals) of the stored degrees.
C15_EntropiaAlDia ==
    (op = "fuzz_gauss_dolor" /\ rows # <<>>) => sd.entropia = EntropiaDelVector

----------------------------------------------------------------------------
(* Properties of two concurrent recomputations (specification SpecConc) *)

\* the vectors one whole fuzzification writes, and the one of a slot never fuzzified
VectoresEnteros ==
    {<<Null, Null, Null>>} \cup {VectorDe(sd, x) : x \in ValorCases \ {DNull}}

\* C16: under every interleaving of two recomputations the stored degrees are
\* those of one single fuzzification, never a mix of two, and once both
\* recomputations have finished the stored entropy is the entropy of the
\* stored degrees.
C16_UltimoEscritorGana ==
    /\ VectorGuardado \in VectoresEnteros
    /\ (\A i \in Procs : pc[i] = "done") => sd.entropia = EntropiaDelVector

\* both recomputations finished, the entropy written after the last fuzzification
C16_Witness ==
    /\ \A i \in Procs : pc[i] = "done"
    /\ sd.valor_crisp = Dec(5, 0)
    /\ VectorGuardado = VectorDe(sd, Dec(5, 0))
    /\ sd.fuzzy_last_updated = Num(1)
    /\ sd.entropia_updated_at = Num(2)
    /\ sd.entropia.k = "num" /\ sd.entropia.v > 0


----------------------------------------------------------------------------
(* Properties of the endpoints (specification SpecHttp) *)

\* the calls to the graph store that raised
GrafoFallido(L) == {n \in 1..Len(L) : L[n].servicio = "grafo" /\ L[n].falla # ""}

\* C17: when the execution of the generated query fails in the graph store,
\* /query of the monitoring module answers with an error payload that carries
\* the store's message unchanged and the generated query text, and no
\* exception leaves the handler.
C17_FalloDeEjecucion ==
    (op = "query" /\ GrafoFallido(http.llamadas) # {}) =>
        /\ http.kind = "error"
        /\ http.campos = {"error", "cypher_generado"}
        /\ \A n \in GrafoFallido(http.llamadas) :
              /\ http.error = http.llamadas[n].falla
              /\ http.cypher = http.llamadas[n].texto

\* the store was down: the payload carries its message and the cleaned query
C17_Witness ==
    /\ op = "query"
    /\ http.kind = "error"
    /\ http.error = "ServiceUnavailable"
    /\ http.cypher = <<<<Q>>>>
    /\ Len(http.llamadas) = 2

\* C18: no failure of the graph store or of the language model leaves
\* /regla_hematoma, /query, /query_clinico or /fuzzy as an exception.
C18_SinExcepciones ==
    /\ op \in {"query", "query_clinico", "regla_hematoma"} => http.kind # "exception"
    /\ op = "fuzzy" => resp.kind # "exception"

\* C19: a /query request calls the language model exactly once and first,
\* runs the generated query at most once and only after the model answered,
\* and repeats neither a failed translation nor a failed execution.
C19_UnaSolaVez ==
    op = "query" =>
        LET L == http.llamadas
        IN  /\ Len(L) \in {1, 2}
            /\ L[1].servicio = "llm"
            /\ Len(L) = 2 => (L[2].servicio = "grafo" /\ L[1].falla = "")
            /\ L[1].falla # "" => Len(L) = 1

\* an execution that failed, made once after the one translation
C19_Witness ==
    /\ op = "query"
    /\ Len(http.llamadas) = 2
    /\ http.llamadas[1].servicio = "llm"
    /\ http.llamadas[2].servicio = "grafo"
    /\ http.llamadas[2].falla = "CypherSyntaxError"

----------------------------------------------------------------------------
(* The two rule classes compared (specification Spec) *)

\* the attributes an (:Alerta) node carries
Atributos(al) ==
    {"codigo", "descripcion", "resuelta"}
    \cup (IF al.ts.k # "null" THEN {"ts"} ELSE {})
    \cup (IF al.created_at.k # "null" THEN {"created_at"} ELSE {})
    \cup (IF al.severidad # "null" THEN {"severidad"} ELSE {})

\* C20: the alerts of both rule classes carry the same attributes: code,
\* severity, description, resolved and one creation timestamp.
C20_MismaForma ==
    \A i, j \in 1..Len(alertas) :
        /\ "severidad" \in Atributos(alertas[i])
        /\ Atributos(alertas[i]) = Atributos(alertas[j])

----------------------------------------------------------------------------
(* The categorical rule (specification Spec) *)

\* the patients of the graph
Pacientes == {x.p : x \in sintomas}

\* the rule as its documentation words it: a symptom 'Dolor' of intensidad 'severa'
DolorSevera(p) ==
    \E x \in sintomas : x.p = p /\ x.nombre = "Dolor" /\ x.intensidad = "severa"

\* the patient has a path the query's WHERE clause accepts
Coincide(p) == \E x \in sintomas : x.p = p /\ DolorIntenso(x)

\* the REQUIERE_ATENCION relationships from patient p to the alerts A
Vinculos(p, A) == {n \in 1..Len(atencion) : atencion[n].p = p /\ atencion[n].a \in A}

\* C21: a run of the categorical rule raises the immediate-referral alert for
\* a patient exactly when the patient presents a symptom named 'Dolor' whose
\* intensidad is the literal 'severa'; no other patient is linked or returned.
C21_DolorSevera ==
    op = "regla_hematoma" =>
        \A p \in Pacientes :
            /\ (\E n \in 1..Len(atencion) : atencion[n].p = p) <=> DolorSevera(p)
            /\ (\E n \in 1..Len(rows) : rows[n].paciente_id = p) <=> DolorSevera(p)

\* C22: after any number of runs there is a single Alert with code
\* DERIVACION_INMEDIATA_DOLOR, every REQUIERE_ATENCION relationship ends at
\* it, every patient that matched in a run has exactly one such relationship
\* and a patient that never matched has none.
C22_UnaAlertaUnVinculo ==
    LET A == AlertasCon(alertas, "DERIVACION_INMEDIATA_DOLOR")
    IN  /\ Cardinality(A) <= 1
        /\ \A n \in 1..Len(atencion) : atencion[n].a \in A
        /\ \A p \in Pacientes :
              /\ op = "regla_hematoma" /\ Coincide(p) => A # {}
              /\ Cardinality(Vinculos(p, A)) = IF A # {} /\ Coincide(p) THEN 1 ELSE 0

\* the rule ran a second time, on a patient with two matching symptoms and
\* next to a patient with none: one alert of the first run, one relationship
C22_Witness ==
    /\ op = "regla_hematoma"
    /\ Len(rows) = 2
    /\ \E x \in sintomas : ~Coincide(x.p)
    /\ \E i \in 1..Len(alertas) :
          /\ alertas[i].codigo = "DERIVACION_INMEDIATA_DOLOR"
          /\ alertas[i].created_at.v < clock
    /\ Len(atencion) = 1

----------------------------------------------------------------------------
(* Precedence of the supplied value in /fuzzy (specification SpecFuzzy) *)

----------------------------------------------------------------------------
(* The seeded graph (specification SpecSeed) *)

SlotsDelCaso ==
    {"dolor_actual", "gravedad_aparente", "mejora_observada", "intervalo_controles"}

EsCaso(n) == "FrameInstance" \in n.labels /\ n.clave = "Caso-001"
EsSlot(n, nombre) == "Slot" \in n.labels /\ n.clave = nombre

\* the TIENE_SLOT relationships of the graph
TieneSlot == {n \in 1..Len(grafo.rels) : grafo.rels[n].tipo = "TIENE_SLOT"}

\* C24: once run_many has run the seed script on an empty graph, the
\* FrameInstance 'Caso-001' has a TIENE_SLOT relationship to each of the four
\* slots, and every TIENE_SLOT relationship goes from that case to one of them.
C24_CasoConSusSlots ==
    (rm.fase = "fin" /\ rm.corridas = 1) =>
        /\ \A nombre \in SlotsDelCaso :
              \E n \in TieneSlot :
                  /\ EsCaso(grafo.nodos[grafo.rels[n].de])
                  /\ EsSlot(grafo.nodos[grafo.rels[n].a], nombre)
        /\ \A n \in TieneSlot :
              /\ EsCaso(grafo.nodos[grafo.rels[n].de])
              /\ \E nombre \in SlotsDelCaso : EsSlot(grafo.nodos[grafo.rels[n].a], nombre)

----------------------------------------------------------------------------
(* Fenced answers of the language model (specification SpecHttp) *)

\* the tokens of a text, line after line
RECURSIVE Aplanar(_)
Aplanar(t) == IF t = <<>> THEN <<>> ELSE Head(t) \o Aplanar(Tail(t))

\* the tokens up to the next fence
RECURSIVE HastaCerca(_)
HastaCerca(toks) ==
    IF toks = <<>> \/ Head(toks) = FENCE THEN <<>>
    ELSE <<Head(toks)>> \o HastaCerca(Tail(toks))

\* what a fenced answer encloses: the tokens after the opening fence and its
\* language tag, up to the closing fence
Encerrado(raw) ==
    LET toks == Tail(Aplanar(strip(raw)))
    IN  HastaCerca(IF toks # <<>> /\ Head(toks) = "cypher" THEN Tail(toks) ELSE toks)

\* the answer the language model gave to the /query request
RespuestaDelModelo == http.llamadas[1].respuesta

\* C25: when the trimmed answer of the language model starts with a fence,
\* on one line or several, with or without a language tag, the cleaned query
\* holds no fence marker, and is not empty when the text between the fences
\* is not empty.
C25_SinCerca ==
    (/\ op = "query"
     /\ http.llamadas[1].falla = ""
     /\ startswith(strip(RespuestaDelModelo), FENCE)) =>
        /\ \A i \in 1..Len(http.cypher) : \A j \in 1..Len(http.cypher[i]) :
              http.cypher[i][j] # FENCE
        /\ ~IsBlank(Encerrado(RespuestaDelModelo)) => http.cypher # <<>>

----------------------------------------------------------------------------
(* Empty questions to /query_monitoreo (specification SpecHttp) *)

\* the calls in which the chain asks the model for a query about the question
Invocaciones ==
    {n \in 1..Len(http.llamadas) :
        http.llamadas[n].servicio = "llm" /\ http.llamadas[n].texto = http.pregunta}

\* C26: /query_monitoreo answers a question that is empty or made of
\* whitespace only with the error payload, calling neither the language model
\* nor the graph store; for every other question the chain is invoked exactly
\* once, with the question as it came.
C26_PreguntaVacia ==
    op = "query_monitoreo" =>
        IF strip(http.pregunta) = <<>>
        THEN /\ http.kind = "error"
             /\ http.campos = {"error"}
             /\ http.llamadas = <<>>
        ELSE /\ http.kind # "error"
             /\ Invocaciones = {1}

\* a question of whitespace only was refused without a call
C26_Witness ==
    /\ op = "query_monitoreo"
    /\ http.pregunta # <<>>
    /\ strip(http.pregunta) = <<>>
    /\ http.kind = "error"
    /\ http.llamadas = <<>>

============================================================================
